---- MODULE Spec2Model ----
(***************************************************************************)
(* Catalog synchronisation engine of gale                                  *)
(* (src/src-tauri/src/thunderstore/fetch.rs).                              *)
(*                                                                         *)
(* Five specifications share the module's variables:                       *)
(*   Spec         the refresh scheduler (fetch_package_loop / loop_iter)   *)
(*                and a manually triggered fetch, both running             *)
(*                fetch_packages, interleaved at the granularity of the    *)
(*                code's lock holds and await points;                      *)
(*   SpecLive     Spec with the scheduler's task resumed by the runtime;   *)
(*   SpecGate     the refresh scheduler and a caller of wait_for_fetch;    *)
(*   SpecExtract  the byte level of fetch_and_parse_packages: one chunk    *)
(*                of the response body per step;                           *)
(*   SpecMerge    the merge of the two sources (line 118) on its own.      *)
(* In Spec a response body is the sequence of the delimited record texts'  *)
(* parse outcomes; lines 163-170 (AdmitRecord) are shared by both.         *)
(***************************************************************************)
EXTENDS Integers, Sequences, FiniteSets, TLC

VARIABLES
    thunderstore,   \* Mutex<Thunderstore>: [packages, is_fetching, packages_fetched]
    lock,           \* holder of the Thunderstore mutex between steps, "none"
                    \* when free (GuardAfter)
    game,           \* game.slug of the run
    pc,             \* position of each task
    is_first,       \* fetch_package_loop's local
    iter,           \* number of the scheduler iteration under way (saturates at MaxIter)
    pref_read,      \* fetch_automatically as read at line 34 of this iteration
    write_directly, \* fetch_packages' parameter, per fetching task
    package_buffer, \* fetch_packages' local, per fetching task
    result,         \* outcome of the task's fetch attempt
    polls,          \* number of polls wait_for_fetch has made (saturates at MaxPolls)
    ready_at_call,  \* packages_fetched at the time wait_for_fetch was called
    cache,          \* read_and_insert_cache's match scrutinee (line 74)
    attempt,        \* per fetching task, what its current call of fetch_packages
                    \* has done so far: [written, emitted]
    byte_buffer,    \* fetch_and_parse_packages' locals (SpecExtract)
    str_buffer,
    ex_buffer,      \* its package_buffer
    ex_parsed,      \* the records line 163 parsed, in order
    consumed,       \* the bytes line 171 removed from str_buffer, in order
    ex_status,      \* "reading", "done" (Ok returned) or "failed" (Err returned)
    body,           \* the response body being streamed
    rest,           \* the bytes of it not yet delivered
    merge_primary,  \* line 113's package_buffer (SpecMerge)
    merge_extra,    \* line 117's extra_packages
    merged          \* [done, map]: package_buffer once line 118 has run

vars == <<thunderstore, lock, game, pc, is_first, iter, pref_read,
          write_directly, package_buffer, result, polls, ready_at_call,
          cache, attempt,
          byte_buffer, str_buffer, ex_buffer, ex_parsed, consumed, ex_status,
          body, rest, merge_primary, merge_extra, merged>>

schedVars == <<thunderstore, lock, game, pc, is_first, iter, pref_read,
               write_directly, package_buffer, result, polls, ready_at_call,
               cache, attempt>>

extractVars == <<byte_buffer, str_buffer, ex_buffer, ex_parsed, consumed,
                 ex_status, body, rest>>

mergeVars == <<merge_primary, merge_extra, merged>>

----------------------------------------------------------------------------
(* Bounds *)

MaxRecs == 2    \* delimited records per response body (Spec)
MaxIter == 2    \* the iteration counter saturates here
MaxPolls == 2   \* the poll counter saturates here
MaxCache == 1   \* records in the on-disk cache
MaxArr == 2     \* elements of a streamed array (SpecExtract)
MaxRun == 3     \* elements of a streamed array of one repeated record
MaxChunk == 12  \* bytes of the largest chunk the transport delivers

----------------------------------------------------------------------------
(* Package records and the exclusion list *)

Keys == {1, 2}
Names == {"a", "b", "x"}

\* EXCLUDED_PACKAGES: the lines of excluded_packages.txt
EXCLUDED_PACKAGES == {"x"}

\* PackageListing, reduced to its key (uuid) and full_name(): uuid 1 is
\* published under two names, uuid 2 under an admitted and an excluded one
Packages == {[uuid |-> 1, name |-> "a"], [uuid |-> 1, name |-> "b"],
             [uuid |-> 2, name |-> "a"], [uuid |-> 2, name |-> "x"]}

full_name(package) == package.name

\* serde_json::from_str::<PackageListing>(json): Ok(package) or Err
ParseErr == [ok |-> FALSE, uuid |-> 0, name |-> ""]
ParseOk(p) == [ok |-> TRUE, uuid |-> p.uuid, name |-> p.name]
Outcomes == {ParseErr} \cup {ParseOk(p) : p \in Packages}

SeqsUpTo(S, n) == UNION {[1..k -> S] : k \in 0..n}

----------------------------------------------------------------------------
(* IndexMap<String, PackageListing>: a sequence of packages, uuids distinct *)

KeysOf(m) == {m[i].uuid : i \in 1..Len(m)}

IndexOf(m, k) == CHOOSE i \in 1..Len(m) : m[i].uuid = k

Get(m, k) == m[IndexOf(m, k)]

\* IndexMap::insert: an existing key keeps its position and takes the new value
IndexMapInsert(m, p) ==
    IF p.uuid \in KeysOf(m)
    THEN [m EXCEPT ![IndexOf(m, p.uuid)] = p]
    ELSE Append(m, p)

RECURSIVE IndexMapExtend(_, _)
\* IndexMap::extend: insert each entry of other, in other's order
IndexMapExtend(m, other) ==
    IF other = <<>> THEN m
    ELSE IndexMapExtend(IndexMapInsert(m, Head(other)), Tail(other))

IsIndexMap(m) == \A i, j \in 1..Len(m) : m[i].uuid = m[j].uuid => i = j

----------------------------------------------------------------------------
(* fetch_and_parse_packages, lines 160-172, per delimited record *)

\* lines 163-170: a parsed record is inserted under its uuid unless its
\* full_name is excluded; a record that fails to parse is skipped
AdmitRecord(buffer, parsed) ==
    IF parsed.ok
    THEN IF full_name(parsed) \notin EXCLUDED_PACKAGES
         THEN IndexMapInsert(buffer, [uuid |-> parsed.uuid, name |-> parsed.name])
         ELSE buffer
    ELSE buffer

RECURSIVE AdmitAll(_, _)
\* the while loops of lines 151-173 over a body given as its records' parse outcomes
AdmitAll(buffer, outcomes) ==
    IF outcomes = <<>> THEN buffer
    ELSE AdmitAll(AdmitRecord(buffer, Head(outcomes)), Tail(outcomes))

\* the bodies a source may answer with (Spec)
Responses == SeqsUpTo(Outcomes, MaxRecs)

\* fetch_and_parse_packages' Ok values over those bodies
Fetched == {AdmitAll(<<>>, resp) : resp \in Responses}

----------------------------------------------------------------------------
(* read_and_insert_cache, lines 71-85 *)

NoCache == [kind |-> "none", mods |-> <<>>]
CacheErr == [kind |-> "err", mods |-> <<>>]
CacheUnread == [kind |-> "unread", mods |-> <<>>]
CacheDropped == [kind |-> "dropped", mods |-> <<>>]
Caches == {NoCache, CacheErr}
          \cup {[kind |-> "some", mods |-> m] : m \in SeqsUpTo(Packages, MaxCache)}

RECURSIVE InsertEach(_, _)
\* lines 78-80: thunderstore.packages.insert(package.uuid, package) for each
InsertEach(packages, mods) ==
    IF mods = <<>> THEN packages
    ELSE InsertEach(IndexMapInsert(packages, Head(mods)), Tail(mods))

\* mutant: the cache replaces the collection, and an absent cache empties it
ReadAndInsertCache_Replace(packages, c) == c.mods

\* lines 74-84: only Ok(Some(mods)) is inserted
ReadAndInsertCache(packages, c) ==
    IF c.kind = "some" THEN InsertEach(packages, c.mods) ELSE packages

----------------------------------------------------------------------------
(* fetch_packages, lines 96-143 *)

Procs == {"sched", "manual"}

\* mutant: the guard of line 55 is bound to a name that lives to the end of
\* loop_iter, across the fetch
GuardAfter_HeldOverFetch(task, line) == IF line = 55 THEN task ELSE "none"

\* The holder of the store lock once the step that locked at `line` is over.
\* Every guard is dropped before its task next suspends: the temporary of
\* line 55 at the end of the `if` condition, the guards of lines 76, 126, 129
\* and 183 at the end of their blocks, that of line 62 at loop_iter's return.
GuardAfter(task, line) == "none"

\* the fresh record of one call of fetch_packages
NoAttempt == [written |-> FALSE, emitted |-> 0]

\* mutant: the event is emitted once per write-back branch and once more at
\* line 141
Emit_Twice(events) == events + 2

\* line 141: app.emit("status_update", None)
Emit(events) == events + 1

\* where fetch_packages returns to
ReturnSite(p) == IF p = "sched" THEN "finish" ELSE "m_finish"

\* lines 115-119: the supplementary source is fetched for one game only
HasExtraSource(slug) == slug = "lethal-company"

\* mutant: the first value seen for a key is kept (entry().or_insert)
MergeExtra_KeepPrimary(primary, extra) ==
    primary \o SelectSeq(extra, LAMBDA e : e.uuid \notin KeysOf(primary))

\* line 118: package_buffer.extend(extra_packages)
MergeExtra(primary, extra) == IndexMapExtend(primary, extra)

\* mutant: the store's collection is replaced in both modes
WriteBack_AlwaysReplace(packages, buffer, direct) == buffer

\* lines 125-131: extend the store's collection (write_directly) or replace it
WriteBack(packages, buffer, direct) ==
    IF direct THEN IndexMapExtend(packages, buffer) ELSE buffer

\* fetch_packages' Err: a request that fails to send or answers a non-success
\* status (line 146), or a chunk that fails to arrive (line 151); `?` hands
\* each to the caller alike
IsErr(r) == r = "err"

\* line 113: the primary request or one of its chunks fails
FetchPrimaryFail(p) ==
    /\ pc[p] = "primary"
    /\ result' = [result EXCEPT ![p] = "err"]
    /\ pc' = [pc EXCEPT ![p] = ReturnSite(p)]
    /\ UNCHANGED <<cache, attempt>>
    /\ UNCHANGED <<thunderstore, lock, game, is_first, iter, pref_read,
                   write_directly, package_buffer, polls, ready_at_call>>
    /\ UNCHANGED <<extractVars, mergeVars>>

\* line 113: the primary body is streamed to its end
FetchPrimaryOk(p) ==
    /\ pc[p] = "primary"
    /\ \E primary \in Fetched :
          package_buffer' = [package_buffer EXCEPT ![p] = primary]
    /\ pc' = [pc EXCEPT ![p] = IF HasExtraSource(game) THEN "extra" ELSE "write"]
    /\ UNCHANGED <<cache, attempt>>
    /\ UNCHANGED <<thunderstore, lock, game, is_first, iter, pref_read,
                   write_directly, result, polls, ready_at_call>>
    /\ UNCHANGED <<extractVars, mergeVars>>

\* mutant: the primary's records are written to the store before the
\* supplementary source is asked, and stay there when it fails
FetchExtraFail_PrimaryWritten(p) ==
    /\ pc[p] = "extra"
    /\ thunderstore' = [thunderstore EXCEPT
           !.packages = WriteBack(thunderstore.packages, package_buffer[p],
                                  write_directly[p])]
    /\ result' = [result EXCEPT ![p] = "err"]
    /\ package_buffer' = [package_buffer EXCEPT ![p] = <<>>]
    /\ pc' = [pc EXCEPT ![p] = ReturnSite(p)]
    /\ UNCHANGED <<cache, attempt>>
    /\ UNCHANGED <<lock, game, is_first, iter, pref_read,
                   write_directly, polls, ready_at_call>>
    /\ UNCHANGED <<extractVars, mergeVars>>

\* line 117: the supplementary request or one of its chunks fails; `?` drops
\* package_buffer
FetchExtraFail(p) ==
    /\ pc[p] = "extra"
    /\ result' = [result EXCEPT ![p] = "err"]
    /\ package_buffer' = [package_buffer EXCEPT ![p] = <<>>]
    /\ pc' = [pc EXCEPT ![p] = ReturnSite(p)]
    /\ UNCHANGED <<cache, attempt>>
    /\ UNCHANGED <<thunderstore, lock, game, is_first, iter, pref_read,
                   write_directly, polls, ready_at_call>>
    /\ UNCHANGED <<extractVars, mergeVars>>

\* lines 117-118
FetchExtraOk(p) ==
    /\ pc[p] = "extra"
    /\ \E extra_packages \in Fetched :
          package_buffer' = [package_buffer EXCEPT
               ![p] = MergeExtra(package_buffer[p], extra_packages)]
    /\ pc' = [pc EXCEPT ![p] = "write"]
    /\ UNCHANGED <<cache, attempt>>
    /\ UNCHANGED <<thunderstore, lock, game, is_first, iter, pref_read,
                   write_directly, result, polls, ready_at_call>>
    /\ UNCHANGED <<extractVars, mergeVars>>

\* lines 125-131, one hold of the store lock
FetchWrite(p) ==
    /\ pc[p] = "write"
    /\ lock = "none"
    /\ lock' = GuardAfter(p, 126)
    /\ thunderstore' = [thunderstore EXCEPT
           !.packages = WriteBack(thunderstore.packages, package_buffer[p],
                                  write_directly[p])]
    /\ package_buffer' = [package_buffer EXCEPT ![p] = <<>>]
    /\ attempt' = [attempt EXCEPT ![p].written = TRUE]
    /\ pc' = [pc EXCEPT ![p] = "set_fetched"]
    /\ UNCHANGED cache
    /\ UNCHANGED <<game, is_first, iter, pref_read,
                   write_directly, result, polls, ready_at_call>>
    /\ UNCHANGED <<extractVars, mergeVars>>

\* line 133, written after the guards of lines 126 and 129 went out of scope
FetchSetFetched(p) ==
    /\ pc[p] = "set_fetched"
    /\ thunderstore' = [thunderstore EXCEPT !.packages_fetched = TRUE]
    /\ pc' = [pc EXCEPT ![p] = "clear_fetching"]
    /\ UNCHANGED <<cache, attempt>>
    /\ UNCHANGED <<lock, game, is_first, iter, pref_read,
                   write_directly, package_buffer, result, polls, ready_at_call>>
    /\ UNCHANGED <<extractVars, mergeVars>>

\* line 134, likewise
FetchClearFetching(p) ==
    /\ pc[p] = "clear_fetching"
    /\ thunderstore' = [thunderstore EXCEPT !.is_fetching = FALSE]
    /\ pc' = [pc EXCEPT ![p] = "emit"]
    /\ UNCHANGED <<cache, attempt>>
    /\ UNCHANGED <<lock, game, is_first, iter, pref_read,
                   write_directly, package_buffer, result, polls, ready_at_call>>
    /\ UNCHANGED <<extractVars, mergeVars>>

\* lines 141-143: app.emit("status_update"), return Ok(())
FetchEmit(p) ==
    /\ pc[p] = "emit"
    /\ attempt' = [attempt EXCEPT ![p].emitted = Emit(attempt[p].emitted)]
    /\ result' = [result EXCEPT ![p] = "ok"]
    /\ pc' = [pc EXCEPT ![p] = ReturnSite(p)]
    /\ UNCHANGED cache
    /\ UNCHANGED <<thunderstore, lock, game, is_first, iter, pref_read,
                   write_directly, package_buffer, polls, ready_at_call>>
    /\ UNCHANGED <<extractVars, mergeVars>>

----------------------------------------------------------------------------
(* fetch_package_loop and loop_iter, lines 22-69 *)

Min(a, b) == IF a < b THEN a ELSE b

\* mutant: the setting ends the loop at the first iteration too
LoopBreaks_IgnoreFirst(fetch_automatically, first) == ~fetch_automatically

\* line 37: always fetch once, even if the setting is turned off
LoopBreaks(fetch_automatically, first) == ~fetch_automatically /\ ~first

\* mutant: the check of line 55 is missing
LoopIterSkips_Never(store) == FALSE

\* line 55: the scheduler skips the iteration when a fetch is under way
LoopIterSkips(store) == store.is_fetching

\* mutant: line 63 is missing
LoopIterFlags_KeepFetching(store, ok) ==
    [store EXCEPT !.packages_fetched = store.packages_fetched \/ ok]

\* mutant: line 64 sets the flag whatever the result
LoopIterFlags_AlwaysFetched(store, ok) ==
    [store EXCEPT !.is_fetching = FALSE, !.packages_fetched = TRUE]

\* lines 62-64, under the store lock
LoopIterFlags(store, ok) ==
    [store EXCEPT !.is_fetching = FALSE,
                  !.packages_fetched = store.packages_fetched \/ ok]

\* mutant: the designation is kept after a success and cleared by a failure
\* (*is_first &= result.is_ok())
IsFirstAfter_KeptOnSuccess(first, r) == first /\ ~IsErr(r)

\* line 65: *is_first &= result.is_err()
IsFirstAfter(first, r) == first /\ IsErr(r)

\* mutant: the error is propagated out of the loop (loop_iter(..).await?)
AfterLoopIter_ErrEndsLoop(r) == IF IsErr(r) THEN "done" ELSE "sleep"

\* lines 42-46: an Err of loop_iter is reported, then the loop sleeps
AfterLoopIter(r) == IF IsErr(r) THEN "report" ELSE "sleep"

\* lines 29, 72-74: super::read_cache answers Ok(Some(mods)), Ok(None) or Err
SchedStart ==
    /\ pc["sched"] = "start"
    /\ cache' \in Caches
    /\ pc' = [pc EXCEPT !["sched"] = "insert_cache"]
    /\ UNCHANGED attempt
    /\ UNCHANGED <<thunderstore, lock, game, is_first, iter, pref_read,
                   write_directly, package_buffer, result, polls, ready_at_call>>
    /\ UNCHANGED <<extractVars, mergeVars>>

\* lines 75-84 and 31: the cached packages are inserted in one hold of the
\* store lock, read_and_insert_cache returns and drops what it read
SchedInsertCache ==
    /\ pc["sched"] = "insert_cache"
    /\ lock = "none"
    /\ lock' = GuardAfter("sched", 76)
    /\ thunderstore' = [thunderstore EXCEPT
           !.packages = ReadAndInsertCache(thunderstore.packages, cache)]
    /\ cache' = CacheDropped
    /\ is_first' = TRUE
    /\ pc' = [pc EXCEPT !["sched"] = "loop"]
    /\ UNCHANGED attempt
    /\ UNCHANGED <<game, iter, pref_read, write_directly,
                   package_buffer, result, polls, ready_at_call>>
    /\ UNCHANGED <<extractVars, mergeVars>>

\* lines 34-40: the preference is read afresh; break or go on to loop_iter
SchedLoop ==
    /\ pc["sched"] = "loop"
    /\ \E fetch_automatically \in BOOLEAN :
          /\ pref_read' = fetch_automatically
          /\ pc' = [pc EXCEPT !["sched"] =
                       IF LoopBreaks(fetch_automatically, is_first)
                       THEN "done" ELSE "check"]
    /\ iter' = Min(iter + 1, MaxIter)
    /\ result' = [result EXCEPT !["sched"] = "none"]
    /\ attempt' = [attempt EXCEPT !["sched"] = NoAttempt]
    /\ UNCHANGED cache
    /\ UNCHANGED <<thunderstore, lock, game, is_first, write_directly,
                   package_buffer, polls, ready_at_call>>
    /\ UNCHANGED <<extractVars, mergeVars>>

\* lines 55-58: a fetch is under way, return Ok(()) without fetching
SchedSkip ==
    /\ pc["sched"] = "check"
    /\ lock = "none"
    /\ lock' = GuardAfter("sched", 55)
    /\ LoopIterSkips(thunderstore)
    /\ result' = [result EXCEPT !["sched"] = "skipped"]
    /\ pc' = [pc EXCEPT !["sched"] = "sleep"]
    /\ UNCHANGED <<cache, attempt>>
    /\ UNCHANGED <<thunderstore, game, is_first, iter, pref_read,
                   write_directly, package_buffer, polls, ready_at_call>>
    /\ UNCHANGED <<extractVars, mergeVars>>

\* lines 55, 60: no fetch is under way, call fetch_packages(app, game, *is_first)
SchedFetch ==
    /\ pc["sched"] = "check"
    /\ lock = "none"
    /\ lock' = GuardAfter("sched", 55)
    /\ ~LoopIterSkips(thunderstore)
    /\ write_directly' = [write_directly EXCEPT !["sched"] = is_first]
    /\ pc' = [pc EXCEPT !["sched"] = "primary"]
    /\ UNCHANGED <<cache, attempt>>
    /\ UNCHANGED <<thunderstore, game, is_first, iter, pref_read,
                   package_buffer, result, polls, ready_at_call>>
    /\ UNCHANGED <<extractVars, mergeVars>>

\* lines 62-67: fetch_packages has returned
SchedFinish ==
    /\ pc["sched"] = "finish"
    /\ lock = "none"
    /\ lock' = GuardAfter("sched", 62)
    /\ thunderstore' = LoopIterFlags(thunderstore, result["sched"] = "ok")
    /\ is_first' = IsFirstAfter(is_first, result["sched"])
    /\ pc' = [pc EXCEPT !["sched"] = AfterLoopIter(result["sched"])]
    /\ UNCHANGED <<cache, attempt>>
    /\ UNCHANGED <<game, iter, pref_read, write_directly,
                   package_buffer, result, polls, ready_at_call>>
    /\ UNCHANGED <<extractVars, mergeVars>>

\* lines 42-44: logger::log_webview_err
SchedReport ==
    /\ pc["sched"] = "report"
    /\ pc' = [pc EXCEPT !["sched"] = "sleep"]
    /\ UNCHANGED <<cache, attempt>>
    /\ UNCHANGED <<thunderstore, lock, game, is_first, iter, pref_read,
                   write_directly, package_buffer, result, polls, ready_at_call>>
    /\ UNCHANGED <<extractVars, mergeVars>>

\* line 46: tokio::time::sleep(FETCH_INTERVAL) elapses
SchedSleep ==
    /\ pc["sched"] = "sleep"
    /\ pc' = [pc EXCEPT !["sched"] = "loop"]
    /\ UNCHANGED <<cache, attempt>>
    /\ UNCHANGED <<thunderstore, lock, game, is_first, iter, pref_read,
                   write_directly, package_buffer, result, polls, ready_at_call>>
    /\ UNCHANGED <<extractVars, mergeVars>>

----------------------------------------------------------------------------
(* The manually triggered fetch: a caller of fetch_packages outside        *)
(* fetch.rs, which checks is_fetching and sets it in one hold of the lock  *)
(* and restores it when fetch_packages has returned.                       *)

ManualTrigger ==
    /\ pc["manual"] = "idle"
    /\ lock = "none"
    /\ ~thunderstore.is_fetching
    /\ thunderstore' = [thunderstore EXCEPT !.is_fetching = TRUE]
    /\ \E direct \in BOOLEAN :
          write_directly' = [write_directly EXCEPT !["manual"] = direct]
    /\ pc' = [pc EXCEPT !["manual"] = "primary"]
    /\ UNCHANGED <<cache, attempt>>
    /\ UNCHANGED <<lock, game, is_first, iter, pref_read,
                   package_buffer, result, polls, ready_at_call>>
    /\ UNCHANGED <<extractVars, mergeVars>>

ManualFinish ==
    /\ pc["manual"] = "m_finish"
    /\ lock = "none"
    /\ thunderstore' = [thunderstore EXCEPT !.is_fetching = FALSE]
    /\ result' = [result EXCEPT !["manual"] = "none"]
    /\ attempt' = [attempt EXCEPT !["manual"] = NoAttempt]
    /\ write_directly' = [write_directly EXCEPT !["manual"] = FALSE]
    /\ pc' = [pc EXCEPT !["manual"] = "idle"]
    /\ UNCHANGED cache
    /\ UNCHANGED <<lock, game, is_first, iter, pref_read,
                   package_buffer, polls, ready_at_call>>
    /\ UNCHANGED <<extractVars, mergeVars>>

----------------------------------------------------------------------------
(* wait_for_fetch, lines 178-191 *)

\* Thunderstore::packages_fetched(), the accessor of the flag
packages_fetched(store) == store.packages_fetched

\* mutant: the gate waits on the wrong flag
WaitReturns_NotFetching(store) == ~store.is_fetching

\* lines 183-186: return when the store reports a completed fetch
WaitReturns(store) == packages_fetched(store)

\* a subsystem calls wait_for_fetch
WaitCall ==
    /\ pc["waiter"] = "idle"
    /\ ready_at_call' = thunderstore.packages_fetched
    /\ polls' = 0
    /\ pc' = [pc EXCEPT !["waiter"] = "poll"]
    /\ UNCHANGED <<cache, attempt>>
    /\ UNCHANGED <<thunderstore, lock, game, is_first, iter, pref_read,
                   write_directly, package_buffer, result>>
    /\ UNCHANGED <<extractVars, mergeVars>>

\* lines 182-187: one poll, under the store lock
WaitPoll ==
    /\ pc["waiter"] = "poll"
    /\ lock = "none"
    /\ lock' = GuardAfter("waiter", 183)
    /\ polls' = Min(polls + 1, MaxPolls)
    /\ pc' = [pc EXCEPT !["waiter"] =
                 IF WaitReturns(thunderstore) THEN "returned" ELSE "sleeping"]
    /\ UNCHANGED <<cache, attempt>>
    /\ UNCHANGED <<thunderstore, game, is_first, iter, pref_read,
                   write_directly, package_buffer, result, ready_at_call>>
    /\ UNCHANGED <<extractVars, mergeVars>>

\* line 189: the one-second sleep elapses
WaitSleep ==
    /\ pc["waiter"] = "sleeping"
    /\ pc' = [pc EXCEPT !["waiter"] = "poll"]
    /\ UNCHANGED <<cache, attempt>>
    /\ UNCHANGED <<thunderstore, lock, game, is_first, iter, pref_read,
                   write_directly, package_buffer, result, polls, ready_at_call>>
    /\ UNCHANGED <<extractVars, mergeVars>>

----------------------------------------------------------------------------
(* The scheduler's specification *)

Games == {"lethal-company", "riskofrain2"}

NotMerged == [done |-> FALSE, map |-> <<>>]

ExtractIdle ==
    /\ byte_buffer = <<>>
    /\ str_buffer = <<>>
    /\ ex_buffer = <<>>
    /\ ex_parsed = <<>>
    /\ consumed = <<>>
    /\ ex_status = "reading"
    /\ body = <<>>
    /\ rest = <<>>

MergeIdle ==
    /\ merge_primary = <<>>
    /\ merge_extra = <<>>
    /\ merged = NotMerged

Init ==
    /\ thunderstore = [packages |-> <<>>, is_fetching |-> FALSE,
                       packages_fetched |-> FALSE]
    /\ lock = "none"
    /\ game \in Games
    /\ pc = [t \in {"sched", "manual", "waiter"} |->
                 IF t = "sched" THEN "start" ELSE "idle"]
    /\ is_first = TRUE
    /\ iter = 0
    /\ pref_read = TRUE
    /\ write_directly = [p \in Procs |-> FALSE]
    /\ package_buffer = [p \in Procs |-> <<>>]
    /\ result = [p \in Procs |-> "none"]
    /\ polls = 0
    /\ ready_at_call = FALSE
    /\ cache = CacheUnread
    /\ attempt = [p \in Procs |-> NoAttempt]
    /\ ExtractIdle
    /\ MergeIdle

Next ==
    \/ SchedStart
    \/ SchedInsertCache
    \/ SchedLoop
    \/ SchedSkip
    \/ SchedFetch
    \/ SchedFinish
    \/ SchedReport
    \/ SchedSleep
    \/ ManualTrigger
    \/ ManualFinish
    \/ \E p \in Procs : FetchPrimaryFail(p)
    \/ \E p \in Procs : FetchPrimaryOk(p)
    \/ \E p \in Procs : FetchExtraFail(p)
    \/ \E p \in Procs : FetchExtraOk(p)
    \/ \E p \in Procs : FetchWrite(p)
    \/ \E p \in Procs : FetchSetFetched(p)
    \/ \E p \in Procs : FetchClearFetching(p)
    \/ \E p \in Procs : FetchEmit(p)

Spec == Init /\ [][Next]_vars

\* The scheduler's task is resumed by the runtime: the error reporter
\* returns, the timer of line 46 fires and the loop head runs. Each of these
\* steps, once enabled, stays enabled until the scheduler takes it.
SpecLive ==
    /\ Spec
    /\ WF_vars(SchedReport)
    /\ WF_vars(SchedSleep)
    /\ WF_vars(SchedLoop)

----------------------------------------------------------------------------
(* The readiness gate's specification: the scheduler and one waiter *)

NextGate ==
    \/ SchedStart
    \/ SchedInsertCache
    \/ SchedLoop
    \/ SchedFetch
    \/ SchedFinish
    \/ SchedReport
    \/ SchedSleep
    \/ WaitCall
    \/ WaitPoll
    \/ WaitSleep
    \/ FetchPrimaryFail("sched")
    \/ FetchPrimaryOk("sched")
    \/ FetchExtraFail("sched")
    \/ FetchExtraOk("sched")
    \/ FetchWrite("sched")
    \/ FetchSetFetched("sched")
    \/ FetchClearFetching("sched")
    \/ FetchEmit("sched")

SpecGate == Init /\ [][NextGate]_vars

----------------------------------------------------------------------------
(* fetch_and_parse_packages at the byte level, lines 145-175 *)

\* A byte is a token: the ASCII bytes stand for themselves, "C3" "A9" are the
\* two bytes of one two-byte character.
Digit(k) == IF k = 1 THEN "1" ELSE "2"

KeyOfDigit(d) == IF d = "1" THEN 1 ELSE 2

\* the serialized PackageListing: {"uuid":k,"name":"<two-byte char>n","versions":[{}]}
RecordTail == <<"[", "{", "}", "]", "}">>

Ser(p) == <<"{", Digit(p.uuid), "C3", "A9", p.name>> \o RecordTail

\* an object of the record's shape that lacks a field
Malformed == <<"{", "1">> \o RecordTail

\* str::from_utf8(&byte_buffer).is_ok()
RECURSIVE ValidUtf8(_)
ValidUtf8(bytes) ==
    IF bytes = <<>> THEN TRUE
    ELSE IF Head(bytes) = "C3"
         THEN /\ Len(bytes) >= 2
              /\ bytes[2] = "A9"
              /\ ValidUtf8(SubSeq(bytes, 3, Len(bytes)))
         ELSE IF Head(bytes) = "A9" THEN FALSE
              ELSE ValidUtf8(Tail(bytes))

\* line 163: serde_json::from_str::<PackageListing>(json)
ParsePackage(json) ==
    IF /\ Len(json) = 10
       /\ json[1] = "{"
       /\ json[2] \in {"1", "2"}
       /\ json[3] = "C3"
       /\ json[4] = "A9"
       /\ json[5] \in Names
       /\ SubSeq(json, 6, 10) = RecordTail
    THEN [ok |-> TRUE, uuid |-> KeyOfDigit(json[2]), name |-> json[5]]
    ELSE ParseErr

\* line 160: the pattern of str_buffer.find
Delimiter == <<"}", "]", "}", ",">>

\* the byte offsets (from 0) at which the pattern occurs
Matches(text) ==
    {i \in 0..(Len(text) - Len(Delimiter)) :
        SubSeq(text, i + 1, i + Len(Delimiter)) = Delimiter}

\* str_buffer.find("}]},"): Some(the first occurrence), None as -1
Find(text) ==
    LET m == Matches(text)
    IN IF m = {} THEN -1 ELSE CHOOSE i \in m : \A j \in m : i <= j

\* line 161: str_buffer.split_at(index + 3).0
JsonOf(text, index) == SubSeq(text, 1, index + 3)

\* line 171: str_buffer.replace_range(..index + 4, "")
Remainder(text, index) == SubSeq(text, index + 5, Len(text))

RECURSIVE Drain_StopsAtError(_)
\* mutant: a record that fails to parse ends the scan (break in the Err arm)
Drain_StopsAtError(st) ==
    LET index == Find(st.str_buffer)
    IN IF index < 0 THEN st
       ELSE LET parsed == ParsePackage(JsonOf(st.str_buffer, index))
            IN IF ~parsed.ok THEN st
               ELSE Drain_StopsAtError([st EXCEPT
                   !.package_buffer = AdmitRecord(st.package_buffer, parsed),
                   !.parsed = Append(st.parsed, [uuid |-> parsed.uuid,
                                                 name |-> parsed.name]),
                   !.consumed = st.consumed \o SubSeq(st.str_buffer, 1, index + 4),
                   !.str_buffer = Remainder(st.str_buffer, index)])

RECURSIVE Drain(_)
\* lines 160-172: extract every delimited record of str_buffer
Drain(st) ==
    LET index == Find(st.str_buffer)
    IN IF index < 0 THEN st
       ELSE LET parsed == ParsePackage(JsonOf(st.str_buffer, index))
            IN Drain([st EXCEPT
                   !.package_buffer = AdmitRecord(st.package_buffer, parsed),
                   !.parsed = IF parsed.ok
                              THEN Append(st.parsed, [uuid |-> parsed.uuid,
                                                      name |-> parsed.name])
                              ELSE st.parsed,
                   !.consumed = st.consumed \o SubSeq(st.str_buffer, 1, index + 4),
                   !.str_buffer = Remainder(st.str_buffer, index)])

\* mutant: byte_buffer is cleared before the decode is known to succeed, so
\* a chunk that ends inside a character is lost
ProcessChunk_DropsUndecoded(st, chunk) ==
    LET bytes == st.byte_buffer \o chunk
    IN IF ~ValidUtf8(bytes)
       THEN [st EXCEPT !.byte_buffer = <<>>]
       ELSE Drain([st EXCEPT !.str_buffer = st.str_buffer \o bytes,
                             !.byte_buffer = <<>>])

\* lines 152-172: one chunk of the body
ProcessChunk(st, chunk) ==
    LET bytes == st.byte_buffer \o chunk
    IN IF ~ValidUtf8(bytes)
       THEN [st EXCEPT !.byte_buffer = bytes]
       ELSE Drain([st EXCEPT !.str_buffer = st.str_buffer \o bytes,
                             !.byte_buffer = <<>>])

ExtractorState ==
    [byte_buffer |-> byte_buffer, str_buffer |-> str_buffer,
     package_buffer |-> ex_buffer, parsed |-> ex_parsed, consumed |-> consumed]

\* line 151: response.chunk() yields the next chunk, cut anywhere and of at
\* most MaxChunk bytes
ReadChunk ==
    /\ ex_status = "reading"
    /\ rest # <<>>
    /\ \E n \in 1..Min(Len(rest), MaxChunk) :
          LET st == ProcessChunk(ExtractorState, SubSeq(rest, 1, n))
          IN /\ byte_buffer' = st.byte_buffer
             /\ str_buffer' = st.str_buffer
             /\ ex_buffer' = st.package_buffer
             /\ ex_parsed' = st.parsed
             /\ consumed' = st.consumed
             /\ rest' = SubSeq(rest, n + 1, Len(rest))
    /\ UNCHANGED <<ex_status, body>>
    /\ UNCHANGED <<schedVars, mergeVars>>

\* line 151: response.chunk() fails, `?` returns the error
ChunkFails ==
    /\ ex_status = "reading"
    /\ rest # <<>>
    /\ ex_status' = "failed"
    /\ UNCHANGED <<byte_buffer, str_buffer, ex_buffer, ex_parsed, consumed,
                   body, rest>>
    /\ UNCHANGED <<schedVars, mergeVars>>

\* lines 151, 174: the body is exhausted, Ok(package_buffer)
EndOfBody ==
    /\ ex_status = "reading"
    /\ rest = <<>>
    /\ ex_status' = "done"
    /\ UNCHANGED <<byte_buffer, str_buffer, ex_buffer, ex_parsed, consumed,
                   body, rest>>
    /\ UNCHANGED <<schedVars, mergeVars>>

\* the bodies streamed: arrays of serialized records, some with an element
\* that does not parse, closed by "]" or, as a source may also send, ",]"
Elements == {Ser(p) : p \in Packages} \cup {Malformed}

RECURSIVE Join(_)
Join(elems) ==
    IF elems = <<>> THEN <<>>
    ELSE IF Len(elems) = 1 THEN elems[1]
         ELSE elems[1] \o <<",">> \o Join(Tail(elems))

ArrayOf(elems) == <<"[">> \o Join(elems) \o <<"]">>

TrailingCommaOf(elems) == <<"[">> \o Join(elems) \o <<",", "]">>

\* a longer array, of one record repeated
RunOf(p) == ArrayOf([i \in 1..MaxRun |-> Ser(p)])

Bodies ==
    {ArrayOf(e) : e \in SeqsUpTo(Elements, MaxArr)}
    \cup {TrailingCommaOf(e) : e \in SeqsUpTo(Elements, MaxArr) \ {<<>>}}
    \cup {RunOf(p) : p \in Packages}

SchedIdle ==
    /\ thunderstore = [packages |-> <<>>, is_fetching |-> FALSE,
                       packages_fetched |-> FALSE]
    /\ lock = "none"
    /\ game = "riskofrain2"
    /\ pc = [t \in {"sched", "manual", "waiter"} |->
                 IF t = "sched" THEN "start" ELSE "idle"]
    /\ is_first = TRUE
    /\ iter = 0
    /\ pref_read = TRUE
    /\ write_directly = [p \in Procs |-> FALSE]
    /\ package_buffer = [p \in Procs |-> <<>>]
    /\ result = [p \in Procs |-> "none"]
    /\ polls = 0
    /\ ready_at_call = FALSE
    /\ cache = CacheUnread
    /\ attempt = [p \in Procs |-> NoAttempt]

InitExtract ==
    /\ SchedIdle
    /\ MergeIdle
    /\ body \in Bodies
    /\ rest = body
    /\ byte_buffer = <<>>
    /\ str_buffer = <<>>
    /\ ex_buffer = <<>>
    /\ ex_parsed = <<>>
    /\ consumed = <<>>
    /\ ex_status = "reading"

NextExtract ==
    \/ ReadChunk
    \/ ChunkFails
    \/ EndOfBody

SpecExtract == InitExtract /\ [][NextExtract]_vars

----------------------------------------------------------------------------
(* The merge of the two sources, lines 113-119, on its own *)

MergePackages == [uuid : {1, 2, 3}, name : {"a", "b"}]

\* what fetch_and_parse_packages may return: an IndexMap of admitted records
MergeMaps == {m \in SeqsUpTo(MergePackages, MaxRecs) : IsIndexMap(m)}

\* line 118
MergeSourcesStep ==
    /\ merged = NotMerged
    /\ merged' = [done |-> TRUE, map |-> MergeExtra(merge_primary, merge_extra)]
    /\ UNCHANGED <<merge_primary, merge_extra>>
    /\ UNCHANGED <<schedVars, extractVars>>

InitMerge ==
    /\ SchedIdle
    /\ ExtractIdle
    /\ merge_primary \in MergeMaps
    /\ merge_extra \in MergeMaps
    /\ merged = NotMerged

NextMerge == MergeSourcesStep

SpecMerge == InitMerge /\ [][NextMerge]_vars

----------------------------------------------------------------------------
(* Claims *)

\* a fetch is in flight from the start of its first request to the end of
\* its write-back
InFlight(p) == pc[p] \in {"primary", "extra", "write"}

\* C1: single-flight -- at no time are the scheduler's fetch and a manually
\* triggered fetch both in flight.
C1_SingleFlight == ~(InFlight("sched") /\ InFlight("manual"))

\* C2: while a fetch started by the scheduler is in flight, is_fetching is
\* true in the store.
C2_FetchingWhileSchedulerFetches ==
    InFlight("sched") => thunderstore.is_fetching

\* C3: the step in which a scheduler fetch attempt returns to the loop
\* (lines 62-67), after a success or after a failure, leaves is_fetching false.
C3_FlagClearedAfterAttempt ==
    [][(pc["sched"] = "finish" /\ pc'["sched"] # "finish")
          => ~thunderstore'.is_fetching]_vars

\* a failed scheduler attempt has returned while the manual fetch that had
\* set the flag is still in flight, and the flag is false
C3_Witness ==
    /\ pc["sched"] = "report"
    /\ result["sched"] = "err"
    /\ InFlight("manual")
    /\ ~thunderstore.is_fetching

\* the steps that complete a successful fetch: line 133 after the
\* write-back, and line 64 when fetch_packages returned Ok
SuccessStep ==
    \/ \E p \in Procs : pc[p] = "set_fetched" /\ pc'[p] = "clear_fetching"
    \/ pc["sched"] = "finish" /\ result["sched"] = "ok" /\ pc'["sched"] = "sleep"

\* C4: packages_fetched never goes from true to false, and it goes from
\* false to true only in a step that completes a successful fetch (not after
\* a failed attempt, not in a skipped iteration).
C4_FetchedMonotonicTruthful ==
    [][/\ thunderstore.packages_fetched => thunderstore'.packages_fetched
       /\ (~thunderstore.packages_fetched /\ thunderstore'.packages_fetched)
             => SuccessStep]_vars

\* a first attempt failed and left the flag false, the retry succeeded
C4_Witness ==
    /\ pc["sched"] = "sleep"
    /\ result["sched"] = "ok"
    /\ iter >= 2
    /\ thunderstore.packages_fetched

\* C5: wait_for_fetch has returned only if packages_fetched is true, and
\* when the flag was already true at the call it returned at its first poll.
C5_ReadinessGate ==
    pc["waiter"] = "returned"
        => /\ thunderstore.packages_fetched
           /\ ready_at_call => polls = 1

\* called before any fetch completed, slept at least once, then returned
C5_Witness ==
    /\ pc["waiter"] = "returned"
    /\ ~ready_at_call
    /\ polls > 1
    /\ thunderstore.packages_fetched

\* Parsing the whole body at once: the elements between the brackets, split
\* at the commas outside any object or array.
RECURSIVE SplitTop(_, _, _)
SplitTop(text, depth, cur) ==
    IF text = <<>> THEN <<cur>>
    ELSE LET c == Head(text)
         IN IF c = "," /\ depth = 0
            THEN <<cur>> \o SplitTop(Tail(text), 0, <<>>)
            ELSE SplitTop(Tail(text),
                          IF c \in {"[", "{"} THEN depth + 1
                          ELSE IF c \in {"]", "}"} THEN depth - 1
                          ELSE depth,
                          Append(cur, c))

ElementsOf(text) ==
    IF Len(text) = 2 THEN <<>> ELSE SplitTop(SubSeq(text, 2, Len(text) - 1), 0, <<>>)

\* the body is a JSON array of valid objects
IsValidArray(text) ==
    /\ Len(text) >= 2
    /\ text[1] = "["
    /\ text[Len(text)] = "]"
    /\ \A i \in 1..Len(ElementsOf(text)) : ParsePackage(ElementsOf(text)[i]).ok

WholeParse(text) ==
    [i \in 1..Len(ElementsOf(text)) |->
        LET r == ParsePackage(ElementsOf(text)[i])
        IN [uuid |-> r.uuid, name |-> r.name]]

\* C6: when the body is a JSON array of valid objects, the records the
\* extractor has parsed once the stream is exhausted are those of parsing
\* the whole array at once, in the same order, however the body was cut.
C6_StreamingCorrectness ==
    (ex_status = "done" /\ IsValidArray(body)) => ex_parsed = WholeParse(body)

\* C7: no record of the store's collection has an excluded full_name.
C7_NoExcludedInCatalog ==
    \A i \in 1..Len(thunderstore.packages) :
        full_name(thunderstore.packages[i]) \notin EXCLUDED_PACKAGES

\* the entries of m whose key is not in ks, in m's order
Without(m, ks) == SelectSeq(m, LAMBDA e : e.uuid \notin ks)

\* C8: after the merge of line 118 every key of the supplementary source
\* holds the supplementary value, every primary key stays at its position in
\* the primary's order (keeping its value when the supplementary source lacks
\* it), and the keys only the supplementary source has follow all primary
\* keys, in the supplementary order.
C8_MergePrecedence ==
    merged.done =>
        /\ Len(merged.map) >= Len(merge_primary)
        /\ \A i \in 1..Len(merge_primary) :
              /\ merged.map[i].uuid = merge_primary[i].uuid
              /\ merged.map[i] = IF merged.map[i].uuid \in KeysOf(merge_extra)
                                 THEN Get(merge_extra, merged.map[i].uuid)
                                 ELSE merge_primary[i]
        /\ SubSeq(merged.map, Len(merge_primary) + 1, Len(merged.map))
              = Without(merge_extra, KeysOf(merge_primary))

\* key 1 is in both sources under different names, key 3 only in the
\* supplementary one and ahead of key 1 there
C8_Witness ==
    /\ merge_primary = <<[uuid |-> 1, name |-> "a"], [uuid |-> 2, name |-> "a"]>>
    /\ merge_extra = <<[uuid |-> 3, name |-> "a"], [uuid |-> 1, name |-> "b"]>>
    /\ merged.done
    /\ merged.map = <<[uuid |-> 1, name |-> "b"], [uuid |-> 2, name |-> "a"],
                      [uuid |-> 3, name |-> "a"]>>

\* the write-back step of task p (lines 125-131)
WriteStep(p) == pc[p] = "write" /\ pc'[p] = "set_fetched"

\* C9: a replace-mode write-back leaves the store's collection equal to the
\* fetched one; a merge-mode write-back keeps every entry whose key was not
\* fetched, with its value and in the same relative order, and maps every
\* fetched key to its fetched value.
C9_WriteBackModes ==
    [][\A p \in Procs : WriteStep(p) =>
          LET old == thunderstore.packages
              new == thunderstore'.packages
              fetched == package_buffer[p]
          IN IF write_directly[p]
             THEN /\ KeysOf(new) = KeysOf(old) \cup KeysOf(fetched)
                  /\ IsIndexMap(new)
                  /\ \A k \in KeysOf(fetched) : Get(new, k) = Get(fetched, k)
                  /\ Without(new, KeysOf(fetched)) = Without(old, KeysOf(fetched))
             ELSE new = fetched]_vars

\* after a merge-mode write-back of the scheduler: the cached record of key 2
\* (excluded, so no fetch delivered it) is still first, key 1 was fetched
C9_Witness ==
    /\ pc["sched"] = "set_fetched"
    /\ write_directly["sched"]
    /\ thunderstore.packages
          = <<[uuid |-> 2, name |-> "x"], [uuid |-> 1, name |-> "a"]>>

\* the positions of an iteration at which pref_read and is_first are those
\* line 37 has tested
InLoopIter ==
    pc["sched"] \in {"check", "primary", "extra", "write", "set_fetched",
                     "clear_fetching", "emit", "finish"}

\* C10 as stated, for the iterations that follow a fetch attempt: whether
\* the attempt succeeded or failed, a preference read as disabled ends the loop.
C10_EndsAtSecondIteration ==
    [][(/\ pc["sched"] = "loop"
        /\ pc'["sched"] # "loop"
        /\ result["sched"] \in {"ok", "err"}
        /\ ~pref_read')
           => pc'["sched"] = "done"]_vars

\* C10 as amended: the loop has ended only where the preference was read as
\* disabled with the "first" designation cleared, which is after a
\* successful fetch and not at the very first iteration; an iteration entered
\* with the preference disabled is one at which the designation still holds;
\* the ended loop takes no further step.
C10_TerminationRule ==
    /\ [](pc["sched"] = "done"
            => /\ ~pref_read
               /\ ~is_first
               /\ iter >= 2
               /\ thunderstore.packages_fetched)
    /\ []((InLoopIter /\ ~pref_read) => is_first)
    /\ [][pc["sched"] = "done" => pc'["sched"] = "done"]_vars

\* the loop has ended
C10_Witness ==
    /\ pc["sched"] = "done"
    /\ ~pref_read
    /\ ~is_first

\* C11 as stated: the iteration that follows a failed attempt never ends the
\* loop, it goes on to another attempt.
C11_RetryAfterEveryFailure ==
    [][(/\ pc["sched"] = "loop"
        /\ pc'["sched"] # "loop"
        /\ result["sched"] = "err")
           => pc'["sched"] # "done"]_vars

\* C11 as amended: a failed attempt is handed to the error reporter, once
\* (the reporter is entered only from the return of a failed attempt and left
\* only for the sleep), the sleep is followed by the next iteration, and that
\* iteration goes on to loop_iter unless the preference is read as disabled
\* with the "first" designation cleared; the loop ends nowhere but at the
\* preference test, so a failure as such never ends it; and every reported
\* failure is in the end followed by that next iteration's decision.
C11_FailureNeverEndsLoop ==
    /\ (pc["sched"] = "report") ~> (pc["sched"] \in {"check", "done"})
    /\ [][(pc["sched"] = "finish" /\ pc'["sched"] # "finish")
             => (pc'["sched"] = "report" <=> result["sched"] = "err")]_vars
    /\ [][(pc["sched"] # "report" /\ pc'["sched"] = "report")
             => pc["sched"] = "finish"]_vars
    /\ [][(pc["sched"] = "report" /\ pc'["sched"] # "report")
             => (pc'["sched"] = "sleep" /\ result'["sched"] = "err")]_vars
    /\ [][(pc["sched"] = "sleep" /\ pc'["sched"] # "sleep")
             => pc'["sched"] = "loop"]_vars
    /\ [][(/\ pc["sched"] = "loop"
           /\ pc'["sched"] # "loop"
           /\ result["sched"] = "err")
             => IF pref_read' \/ is_first
                THEN pc'["sched"] = "check"
                ELSE pc'["sched"] = "done"]_vars
    /\ [][(pc["sched"] # "done" /\ pc'["sched"] = "done")
             => pc["sched"] = "loop"]_vars

\* an attempt made after an earlier success has failed and been reported,
\* and the loop is asleep, not ended
C11_Witness ==
    /\ pc["sched"] = "sleep"
    /\ result["sched"] = "err"
    /\ ~is_first
    /\ thunderstore.packages_fetched

\* the points at which a task is suspended: on network I/O (request send or
\* chunk read, lines 146 and 151), on the inter-iteration sleep (line 46), on
\* the readiness gate's sleep (line 189)
Suspended(t) ==
    \/ t \in Procs /\ pc[t] \in {"primary", "extra"}
    \/ t = "sched" /\ pc[t] = "sleep"
    \/ t = "waiter" /\ pc[t] = "sleeping"

\* C12: a task suspended on network I/O, on the inter-iteration sleep or on
\* the gate's sleep does not hold the store lock; every hold of the lock is
\* over within the step that takes it, and that step performs one in-memory
\* operation: it reads flags, or writes flags, or merges into or replaces the
\* collection, never both of the last two.
C12_LockDiscipline ==
    /\ [](\A t \in DOMAIN pc : Suspended(t) => lock # t)
    /\ [][/\ lock' = "none"
          /\ thunderstore'.packages # thunderstore.packages
                => /\ thunderstore'.is_fetching = thunderstore.is_fetching
                   /\ thunderstore'.packages_fetched
                         = thunderstore.packages_fetched]_vars

\* the scheduler waits for the network and the gate's caller sleeps, after
\* each has taken and dropped the lock
C12_Witness ==
    /\ pc["sched"] = "primary"
    /\ pc["waiter"] = "sleeping"
    /\ polls >= 1
    /\ lock = "none"

\* the serialized size of the longest record a body holds
LongestRecord == Len(Ser([uuid |-> 1, name |-> "a"]))

\* C13: after each chunk the pending-bytes buffer and the text buffer
\* together hold at most the longest single record plus the largest chunk
\* size, whatever the number of bytes received so far.
C13_BoundedBuffers ==
    Len(byte_buffer) + Len(str_buffer) <= LongestRecord + MaxChunk

\* C14: the step in which a scheduler iteration finds is_fetching true goes
\* straight to the interval sleep (no request, no error report) and leaves
\* the store (collection, is_fetching, packages_fetched) and the "first"
\* designation as they were, with nothing written and no event emitted; a
\* skipped iteration only sleeps and returns to the loop head.
C14_SkipLeavesAllUnchanged ==
    /\ [][(/\ pc["sched"] = "check"
           /\ pc'["sched"] # "check"
           /\ thunderstore.is_fetching)
             => /\ pc'["sched"] = "sleep"
                /\ result'["sched"] = "skipped"
                /\ thunderstore' = thunderstore
                /\ is_first' = is_first
                /\ attempt'["sched"] = NoAttempt]_vars
    /\ [](result["sched"] = "skipped"
            => /\ pc["sched"] \in {"sleep", "loop"}
               /\ attempt["sched"] = NoAttempt)

\* the scheduler has skipped its iteration while a manual fetch holds the
\* flag, with the designation still set
C14_Witness ==
    /\ pc["sched"] = "sleep"
    /\ result["sched"] = "skipped"
    /\ thunderstore.is_fetching
    /\ InFlight("manual")
    /\ is_first

\* the scheduler is inside a call of fetch_packages
SchedFetching ==
    pc["sched"] \in {"primary", "extra", "write", "set_fetched",
                     "clear_fetching", "emit"}

\* C15: the "first" designation is cleared in exactly the steps in which a
\* scheduler fetch returns Ok and is never set again; the return of a failed
\* fetch leaves it as it was, and while it holds the loop head goes on to
\* loop_iter even when the preference is read as disabled; a scheduler fetch
\* runs in merge mode if the designation holds and in replace mode if it has
\* been cleared.
C15_FirstDesignation ==
    /\ [][(is_first /\ ~is_first')
             <=> (/\ is_first
                  /\ pc["sched"] = "finish"
                  /\ pc'["sched"] # "finish"
                  /\ result["sched"] = "ok")]_vars
    /\ [][~is_first => ~is_first']_vars
    /\ [][(pc["sched"] = "loop" /\ pc'["sched"] # "loop" /\ is_first)
             => pc'["sched"] = "check"]_vars
    /\ [](SchedFetching => write_directly["sched"] = is_first)

\* no earlier attempt succeeded, and the scheduler fetches again, in merge
\* mode, with the preference read as disabled
C15_Witness ==
    /\ pc["sched"] = "primary"
    /\ iter >= 2
    /\ is_first
    /\ ~pref_read
    /\ write_directly["sched"]

\* the scheduler is in read_and_insert_cache
InCacheRead == pc["sched"] \in {"start", "insert_cache"}

\* the value the cache holds for key k: that of its last record with the key
CachedValue(mods, k) ==
    mods[CHOOSE i \in 1..Len(mods) :
            /\ mods[i].uuid = k
            /\ \A j \in (i + 1)..Len(mods) : mods[j].uuid # k]

\* C16: the cache is read and inserted once (read_and_insert_cache is never
\* re-entered and what it read is dropped for good), before any request of
\* the scheduler (no iteration has begun while it runs, and it is over when
\* the scheduler fetches); the insertion adds the cached records to the
\* collection and changes no other entry, and leaves the collection as it
\* was when the cache is absent or unreadable; the iteration that follows
\* goes on to loop_iter whatever the preference.
C16_CacheBeforeFetch ==
    /\ [][InCacheRead' => InCacheRead]_vars
    /\ [][cache = CacheDropped => cache' = CacheDropped]_vars
    /\ [](InCacheRead => /\ iter = 0
                         /\ result["sched"] = "none"
                         /\ attempt["sched"] = NoAttempt)
    /\ []((SchedFetching \/ iter > 0) => cache = CacheDropped)
    /\ [][(pc["sched"] = "insert_cache" /\ pc'["sched"] # "insert_cache")
             => LET old == thunderstore.packages
                    new == thunderstore'.packages
                IN IF cache.kind = "some"
                   THEN /\ KeysOf(new) = KeysOf(old) \cup KeysOf(cache.mods)
                        /\ IsIndexMap(new)
                        /\ \A k \in KeysOf(cache.mods) :
                              Get(new, k) = CachedValue(cache.mods, k)
                        /\ Without(new, KeysOf(cache.mods))
                              = Without(old, KeysOf(cache.mods))
                   ELSE new = old]_vars
    /\ [][(pc["sched"] = "loop" /\ iter = 0 /\ pc'["sched"] # "loop")
             => pc'["sched"] = "check"]_vars

\* the scheduler's first request is under way over a collection that holds
\* what only the cache can have delivered: a record of an excluded name
C16_Witness ==
    /\ pc["sched"] = "primary"
    /\ iter = 1
    /\ cache = CacheDropped
    /\ thunderstore.packages = <<[uuid |-> 2, name |-> "x"]>>

\* The delimited records of a text, found on the text as a whole: the i-th
\* runs from the end of the (i-1)-th occurrence of the delimiter to the
\* closing brace of the i-th (occurrences of "}]}," cannot overlap).
NthMatch(text, i) ==
    CHOOSE m \in Matches(text) :
        Cardinality({j \in Matches(text) : j < m}) = i - 1

DelimitedTexts(text) ==
    [i \in 1..Cardinality(Matches(text)) |->
        SubSeq(text, IF i = 1 THEN 1 ELSE NthMatch(text, i - 1) + 5,
               NthMatch(text, i) + 3)]

\* the records among them that parse, in their order
ParsedOf(text) ==
    LET good == SelectSeq([i \in 1..Len(DelimitedTexts(text)) |->
                              ParsePackage(DelimitedTexts(text)[i])],
                          LAMBDA r : r.ok)
    IN [i \in 1..Len(good) |-> [uuid |-> good[i].uuid, name |-> good[i].name]]

\* the text through its last delimiter
ThroughLastDelimiter(text) ==
    IF Matches(text) = {} THEN <<>>
    ELSE SubSeq(text, 1, NthMatch(text, Cardinality(Matches(text))) + 4)

\* C17: after each chunk, whatever records failed to parse, the text taken
\* off the text buffer is all of the decoded text through its last delimiter
\* (a failed record's text included), the records extracted are exactly the
\* delimited records that parse, in their order, and the step that met a
\* failing record has not failed the attempt.
C17_ParseFailureNonFatal ==
    /\ [](LET text == consumed \o str_buffer
          IN /\ consumed = ThroughLastDelimiter(text)
             /\ ex_parsed = ParsedOf(text))
    /\ [][rest' # rest => ex_status' = "reading"]_vars
    /\ [][(ex_status = "reading" /\ ex_status' = "failed")
             => (consumed' = consumed /\ ex_parsed' = ex_parsed)]_vars

\* the stream is over, its first delimited record did not parse, a later
\* one did and was extracted
C17_Witness ==
    /\ ex_status = "done"
    /\ Cardinality(Matches(body)) = 2
    /\ ~ParsePackage(DelimitedTexts(body)[1]).ok
    /\ ex_parsed = <<[uuid |-> 1, name |-> "a"]>>
    /\ consumed = ThroughLastDelimiter(body)

\* a step of task p
StepOf(p) == pc'[p] # pc[p]

\* the steps a failing call of fetch_packages is made of: the requests and
\* chunk reads up to the failure, and the caller's handling of the Err
FailingAttemptStep(p) ==
    /\ StepOf(p)
    /\ \/ pc[p] \in {"primary", "extra"}
       \/ pc[p] = ReturnSite(p) /\ result[p] = "err"

\* C18: a fetch attempt that has failed has written nothing to the store
\* and emitted no event, and no step it is made of (the requests and chunk
\* reads before the failure, the failure, the caller's handling of it)
\* changes the collection or packages_fetched: both are as the attempt
\* found them.
C18_FailedFetchWritesNothing ==
    /\ [](\A p \in Procs : result[p] = "err" => attempt[p] = NoAttempt)
    /\ [][\A p \in Procs : FailingAttemptStep(p)
             => /\ thunderstore'.packages = thunderstore.packages
                /\ thunderstore'.packages_fetched
                      = thunderstore.packages_fetched
                /\ attempt'[p].emitted = 0]_vars

\* the scheduler's first attempt has failed; nothing was fetched before, and
\* the store holds only what the cache delivered
C18_Witness ==
    /\ pc["sched"] = "report"
    /\ result["sched"] = "err"
    /\ iter = 1
    /\ pc["manual"] = "idle"
    /\ ~thunderstore.packages_fetched
    /\ thunderstore.packages = <<[uuid |-> 2, name |-> "x"]>>

\* task p emits the status_update event in this step
EmitStep(p) == attempt'[p].emitted > attempt[p].emitted

\* C19: a fetch that has returned Ok has emitted exactly one event, a failed
\* attempt and a skipped iteration none, and no attempt ever more than one;
\* the step that emits the event belongs to an attempt whose write-back is
\* done, and finds packages_fetched true.
C19_OneEventPerSuccess ==
    /\ [](\A p \in Procs :
            /\ result[p] = "ok" => attempt[p].emitted = 1
            /\ result[p] \in {"err", "skipped"} => attempt[p].emitted = 0
            /\ attempt[p].emitted <= 1)
    /\ [][\A p \in Procs : EmitStep(p)
             => /\ attempt[p].written
                /\ thunderstore.packages_fetched
                /\ result'[p] = "ok"]_vars

\* a replace-mode fetch of the scheduler has written its records, emitted
\* its event and returned Ok
C19_Witness ==
    /\ pc["sched"] = "finish"
    /\ result["sched"] = "ok"
    /\ ~write_directly["sched"]
    /\ attempt["sched"] = [written |-> TRUE, emitted |-> 1]
    /\ thunderstore.packages_fetched

\* the bytes of the body received so far
Received == SubSeq(body, 1, Len(body) - Len(rest))

\* the extractor's locals at entry (lines 147-149)
FreshExtractor ==
    [byte_buffer |-> <<>>, str_buffer |-> <<>>, package_buffer |-> <<>>,
     parsed |-> <<>>, consumed |-> <<>>]

\* the body delivered as one chunk
InOneChunk(bytes) == ProcessChunk(FreshExtractor, bytes)

\* C20: for a body that is valid UTF-8, however it is cut into chunks, the
\* text taken off the text buffer, the text buffer and the pending bytes
\* together are at every moment the bytes received so far, and once the
\* stream is exhausted the records admitted and extracted, their order and
\* the text left over are those of the same bytes delivered as one chunk.
C20_ChunkBoundaryIndependence ==
    ValidUtf8(body) =>
        /\ consumed \o str_buffer \o byte_buffer = Received
        /\ ex_status = "done" =>
              /\ byte_buffer = <<>>
              /\ ex_buffer = InOneChunk(body).package_buffer
              /\ ex_parsed = InOneChunk(body).parsed
              /\ consumed = InOneChunk(body).consumed
              /\ str_buffer = InOneChunk(body).str_buffer

\* a chunk has ended inside the delimiter that follows a record, and the
\* next one inside a character: the text buffer ends with "}]", the pending
\* bytes begin with "}," and end with the first byte of a character
C20_Witness ==
    /\ ex_status = "reading"
    /\ Len(str_buffer) >= 2
    /\ SubSeq(str_buffer, Len(str_buffer) - 1, Len(str_buffer)) = <<"}", "]">>
    /\ byte_buffer = <<"}", ",", "{", "1", "C3">>

====
